---- MODULE Spec2Model ----
(***************************************************************************)
(* Rechunking engine of volcanite (python/volcanite/src/volcanite/         *)
(* converter_chunked.py): convert_chunked_volume and its helpers, with     *)
(* numpy's slicing, broadcasting and thread semantics written out.         *)
(*                                                                         *)
(* Axis vectors are functions on 0..2 like the numpy arrays of the code.   *)
(* Arrays are records [shape, val]: val maps every index triple of the     *)
(* box of the shape to a voxel.  A voxel of the logical volume is named by *)
(* its global position <<z, y, x>>, so every voxel is distinct.            *)
(***************************************************************************)
EXTENDS Integers, Sequences, FiniteSets, TLC

\* ---------------------------------------------------------------- bounds
MaxVoxels == 10     \* number of voxels of the logical volume
MaxCin == 3         \* input chunk size per axis
MaxCout == 5        \* output chunk size per axis
MaxThreads == 2     \* thread_count
MaxTrip == 3        \* axis orders applied in a row before returning to 'zyx'

\* ------------------------------------------------------- integer helpers
Min(a, b) == IF a < b THEN a ELSE b
Max(a, b) == IF a > b THEN a ELSE b
CeilDiv(a, b) == (a + b - 1) \div b

T3(a, b, c) == (0 :> a) @@ (1 :> b) @@ (2 :> c)
Rev(v) == T3(v[2], v[1], v[0])

\* ------------------------------------------------------------ numpy arrays
Box(sh) == (0 .. sh[0] - 1) \X (0 .. sh[1] - 1) \X (0 .. sh[2] - 1)

\* data = [np.array([]) ...]: a one-dimensional empty array
EmptyArray == [shape |-> <<0>>, val |-> <<>>]
Is3D(a) == DOMAIN a.shape = 0 .. 2

\* contents of memory handed out by np.empty
GarbageVals == {<<0 - 1, 0 - 1, 0 - 1>>, <<0 - 2, 0 - 2, 0 - 2>>}
np_empty(sh, g) == [shape |-> sh, val |-> [p \in Box(sh) |-> g]]

\* Python slice a[lo:hi] on an axis of length n: negative bounds count from
\* the end, bounds outside the axis are clipped, hi <= lo selects nothing
SliceIdx(i, n) == IF i < 0 THEN Max(i + n, 0) ELSE Min(i, n)
Slice(lo, hi, n) ==
    [lo |-> SliceIdx(lo, n), len |-> Max(SliceIdx(hi, n) - SliceIdx(lo, n), 0)]

\* numpy assignment dst[...] = src: every axis of src has the length of the
\* axis of dst or length 1 (broadcast)
Broadcastable(srclen, dstlen) == srclen = dstlen \/ srclen = 1
BIdx(i, srclen, dstlen) == IF srclen = dstlen THEN i ELSE 0

np_swapaxes02(a) ==
    [shape |-> Rev(a.shape),
     val |-> [p \in Box(Rev(a.shape)) |-> a.val[<<p[3], p[2], p[1]>>]]]

\* ------------------------------------------------- volume I/O (converter.py)
\* vraw file: header "X Y Z" and the payload in C order
write_vraw(volume) ==
    LET s == volume.shape
        n == s[0] * s[1] * s[2]
    IN [hdr |-> <<s[2], s[1], s[0]>>,
        payload |-> [i \in 0 .. n - 1 |->
            volume.val[<<i \div (s[1] * s[2]), (i \div s[2]) % s[1], i % s[2]>>]]]

read_vraw(file) ==
    LET s == T3(file.hdr[3], file.hdr[2], file.hdr[1])
    IN [shape |-> s,
        val |-> [p \in Box(s) |-> file.payload[(p[1] * s[1] + p[2]) * s[2] + p[3]]]]

\* input_axis_order is 'zyx' in every call of the engine: reshape_memory_order
\* returns the volume unchanged
write_volume(volume) == write_vraw(volume)
read_volume(file) == read_vraw(file)

\* numpy's C order: the position of index p in the flat data of shape s
Ravel(p, s) == (p[1] * s[1] + p[2]) * s[2] + p[3]
np_flatten(a) ==
    LET s == a.shape
    IN [i \in 0 .. s[0] * s[1] * s[2] - 1 |->
            a.val[<<i \div (s[1] * s[2]), (i \div s[2]) % s[1], i % s[2]>>]]

\* ndarray.reshape: the flat data stays, the shape changes
np_reshape(a, sh) ==
    LET flat == np_flatten(a)
    IN [shape |-> sh, val |-> [p \in Box(sh) |-> flat[Ravel(p, sh)]]]

\* h5py: create_dataset(data, shape) stores the flat data under the shape
write_hdf5(volume) ==
    np_reshape(volume, T3(volume.shape[2], volume.shape[1], volume.shape[0]))
\* the dataset returned in the shape it is stored in
read_hdf5_AsStored(dataset) == dataset

read_hdf5(dataset) ==
    np_reshape(dataset, T3(dataset.shape[2], dataset.shape[1], dataset.shape[0]))

\* np.save / np.savez_compressed: the shape, the memory order and the flat
\* data (in an archive as its first array); np.load builds the array again
write_numpy(volume) ==
    [shape |-> volume.shape, fortran_order |-> FALSE, data |-> np_flatten(volume)]
read_numpy(npy) ==
    [shape |-> npy.shape,
     val |-> [p \in Box(npy.shape) |->
        IF npy.fortran_order
        THEN npy.data[p[1] + npy.shape[0] * (p[2] + npy.shape[1] * p[3])]
        ELSE npy.data[Ravel(p, npy.shape)]]]

\* nibabel: the header holds the shape of the array as dim, the data is
\* stored with the first index running fastest and loaded the same way
write_nifti(volume) ==
    LET s == volume.shape
    IN [dim |-> s,
        data |-> [i \in 0 .. s[0] * s[1] * s[2] - 1 |->
            volume.val[<<i % s[0], (i \div s[0]) % s[1], i \div (s[0] * s[1])>>]]]
read_nifti(img) ==
    [shape |-> img.dim,
     val |-> [p \in Box(img.dim) |->
        img.data[p[1] + img.dim[0] * (p[2] + img.dim[1] * p[3])]]]

\* vtk image data: the dimensions and the flat scalars as point data
write_vti(volume) ==
    [dims |-> volume.shape, scalars |-> np_flatten(volume), cell_arrays |-> 0,
     point_arrays |-> 1]
read_vti(image) ==
    LET sh == IF image.cell_arrays > 0 THEN [a \in 0 .. 2 |-> image.dims[a] - 1]
              ELSE image.dims
    IN [shape |-> sh, val |-> [p \in Box(sh) |-> image.scalars[Ravel(p, sh)]]]

\* axis orders: the permutations of 'xyz'
AxisOrders ==
    {o \in [0 .. 2 -> {"x", "y", "z"}] : \A c \in {"x", "y", "z"} : \E i \in 0 .. 2 : o[i] = c}
zyx == T3("z", "y", "x")
xyz == T3("x", "y", "z")
find(order, c) == CHOOSE i \in 0 .. 2 : order[i] = c

\* the shape permuted as if the volume always came in 'zyx'
reshape_memory_order_FromZyx(volume, from_order, to_order) ==
    IF from_order = to_order THEN volume
    ELSE LET reshape_tuple == [i \in 0 .. 2 |-> find(zyx, to_order[i])]
         IN np_reshape(volume, [i \in 0 .. 2 |-> volume.shape[reshape_tuple[i]]])

reshape_memory_order(volume, from_order, to_order) ==
    IF from_order = to_order THEN volume
    ELSE LET reshape_tuple == [i \in 0 .. 2 |-> find(from_order, to_order[i])]
         IN np_reshape(volume, [i \in 0 .. 2 |-> volume.shape[reshape_tuple[i]]])

\* the file types of write_volume and read_volume that have a writer and a
\* reader
FileTypes == {"vraw", "raw", "hdf5", "h5", "npy", "npz", "nii", "nii.gz", "vti"}

\* write_volume(volume, path) with input_axis_order 'zyx', by the file type of
\* the path
write_volume_ft(volume, ft) ==
    LET v == reshape_memory_order(volume, zyx, zyx)
    IN IF ft \in {"vraw", "raw"} THEN write_vraw(v)
       ELSE IF ft \in {"hdf5", "h5"} THEN write_hdf5(v)
       ELSE IF ft \in {"npy", "npz"} THEN write_numpy(v)
       ELSE IF ft \in {"nii", "nii.gz"} THEN write_nifti(v)
       ELSE write_vti(v)

\* read_volume(path) with input_axis_order 'zyx'; no file type of FileTypes
\* is unpacked with gzip first ("nii.gz" is read by nibabel)
read_volume_ft(f, ft) ==
    LET v == IF ft \in {"vraw", "raw"} THEN read_vraw(f)
             ELSE IF ft \in {"hdf5", "h5"} THEN read_hdf5(f)
             ELSE IF ft \in {"npy", "npz"} THEN read_numpy(f)
             ELSE IF ft \in {"nii", "nii.gz"} THEN read_nifti(f)
             ELSE read_vti(f)
    IN reshape_memory_order(v, zyx, zyx)

\* ---------------------------------------------------- gzip (converter.py)
\* a path is modelled by Path(path).suffixes (without the dots), the disk by a
\* function from paths to file contents; a gzip file holds [gz |-> content]
Suffixes(ft) == IF ft = "nii.gz" THEN <<"nii", "gz">> ELSE <<ft>>

unlink(d, path) == [q \in DOMAIN d \ {path} |-> d[q]]

\* lines 261-269: volume.abc is compressed into a second file volume.abc.gz
copy_to_gzip(d, path_in) ==
    LET path_out == path_in \o <<"gz">>
    IN [path |-> path_out,
        disk |-> [q \in DOMAIN d \cup {path_out} |->
                    IF q = path_out THEN [gz |-> d[path_in]] ELSE d[q]]]

\* lines 271-282: volume.abc.gz is decompressed into a second file volume.abc
copy_from_gzip(d, path_in) ==
    IF path_in[Len(path_in)] # "gz"
    THEN [err |-> "ValueError", path |-> path_in, disk |-> d]
    ELSE LET path_out == SubSeq(path_in, 1, Len(path_in) - 1)
         IN [err |-> "none", path |-> path_out,
             disk |-> [q \in DOMAIN d \cup {path_out} |->
                         IF q = path_out THEN d[path_in].gz ELSE d[q]]]

\* lines 190-197: nibabel compresses and decompresses a file whose name ends
\* in .gz by itself
write_nifti_path(v, path) ==
    IF path[Len(path)] = "gz" THEN [gz |-> write_nifti(v)] ELSE write_nifti(v)

read_nifti_path(f, path) ==
    IF path[Len(path)] = "gz" THEN read_nifti(f.gz) ELSE read_nifti(f)

\* lines 285-320: write_volume(volume, path_out, apply_gzip = apply_gzip) on
\* disk d: the writer is selected by the whole list of suffixes
write_volume_gzip(d, volume, path_out, apply_gzip) ==
    LET extensions == path_out
        v == reshape_memory_order(volume, zyx, zyx)
        known == extensions \in {<<"vraw">>, <<"raw">>, <<"hdf5">>, <<"h5">>, <<"npy">>,
                                 <<"npz">>, <<"nii">>, <<"nii", "gz">>, <<"vti">>}
        content == IF extensions \in {<<"vraw">>, <<"raw">>} THEN write_vraw(v)
                   ELSE IF extensions \in {<<"hdf5">>, <<"h5">>} THEN write_hdf5(v)
                   ELSE IF extensions \in {<<"npy">>, <<"npz">>} THEN write_numpy(v)
                   ELSE IF extensions \in {<<"nii">>, <<"nii", "gz">>}
                        THEN write_nifti_path(v, path_out)
                   ELSE write_vti(v)
        written == [q \in DOMAIN d \cup {path_out} |->
                      IF q = path_out THEN content ELSE d[q]]
    IN IF Len(extensions) = 0 THEN [err |-> "ValueError", disk |-> d]
       ELSE IF ~ known THEN [err |-> "Exception", disk |-> d]
       ELSE IF apply_gzip
            THEN [err |-> "none",
                  disk |-> unlink(copy_to_gzip(written, path_out).disk, path_out)]
            ELSE [err |-> "none", disk |-> written]

\* lines 323-361: read_volume(path_in) on disk d: a path that ends in .gz
\* (other than .nii.gz) is decompressed into a temporary file first, the
\* reader is selected by the last suffix of the path as it was passed
read_volume_gzip(d, path_in0) ==
    LET extensions == path_in0
        n == Len(extensions)
        apply_gzip == extensions[n] = "gz" /\ n > 1 /\ extensions[n - 1] # "nii"
        g == IF apply_gzip THEN copy_from_gzip(d, path_in0)
             ELSE [err |-> "none", path |-> path_in0, disk |-> d]
        path_in == g.path
        f == g.disk[path_in]
        reader == IF extensions[n] \in {"vraw", "raw"} THEN "vraw"
                  ELSE IF extensions[n] \in {"hdf5", "h5"} THEN "hdf5"
                  ELSE IF extensions[n] \in {"npy", "npz"} THEN "npy"
                  ELSE IF extensions[n] = "nii"
                          \/ (n > 1 /\ SubSeq(extensions, n - 1, n) = <<"nii", "gz">>)
                       THEN "nii"
                  ELSE IF extensions[n] = "vti" THEN "vti"
                  ELSE "unknown"
    IN IF n = 0 THEN [err |-> "ValueError", volume |-> EmptyArray, disk |-> d]
       ELSE IF g.err # "none" THEN [err |-> g.err, volume |-> EmptyArray, disk |-> d]
       ELSE IF reader = "unknown"
            THEN [err |-> "Exception", volume |-> EmptyArray, disk |-> g.disk]
            ELSE [err |-> "none",
                  volume |-> IF reader = "nii"
                             THEN reshape_memory_order(read_nifti_path(f, path_in),
                                                       zyx, zyx)
                             ELSE read_volume_ft(f, reader),
                  disk |-> IF apply_gzip THEN unlink(g.disk, path_in) ELSE g.disk]

\* --------------------------------------------------------- configurations
\* D: extent of the logical volume (ZYX); CinU, CoutU: the chunk size tuples
\* as the caller passes them (XYZ); tc: thread_count
Extents == {d \in (1 .. MaxVoxels) \X (1 .. MaxVoxels) \X (1 .. MaxVoxels) :
              d[1] * d[2] * d[3] <= MaxVoxels}
Sizes(m) == (1 .. m) \X (1 .. m) \X (1 .. m)
Configs ==
    {c \in [D : {T3(d[1], d[2], d[3]) : d \in Extents},
            CinU : {T3(s[1], s[2], s[3]) : s \in Sizes(MaxCin)},
            CoutU : {T3(s[1], s[2], s[3]) : s \in Sizes(MaxCout)},
            tc : 1 .. MaxThreads] :
        \A a \in 0 .. 2 : /\ c.CinU[a] <= c.D[2 - a]
                          /\ c.CoutU[a] <= c.D[2 - a] + 1}

\* the voxel of the logical volume at global position (z, y, x)
Voxel(zz, yy, xx) == <<zz, yy, xx>>

\* chunk files are named by their chunk indices <<x, y, z>>
GridNames(D, C) ==
    (0 .. CeilDiv(D[2], C[2]) - 1) \X (0 .. CeilDiv(D[1], C[1]) - 1)
        \X (0 .. CeilDiv(D[0], C[0]) - 1)

\* the sub-block of the volume of chunk n of the grid with chunk size C (ZYX),
\* clipped at the volume boundary (as write_chunked_volume cuts it)
ChunkOf(D, C, n) ==
    LET o == T3(n[3] * C[0], n[2] * C[1], n[1] * C[2])
        s == [a \in 0 .. 2 |-> Min(C[a], D[a] - o[a])]
    IN [shape |-> s,
        val |-> [p \in Box(s) |-> Voxel(o[0] + p[1], o[1] + p[2], o[2] + p[3])]]

InputFiles(c) ==
    [n \in GridNames(c.D, Rev(c.CinU)) |-> write_volume(ChunkOf(c.D, Rev(c.CinU), n))]

\* the same chunks written from a buffer brought to 'xyz' with
\* reshape_memory_order, which is not the order the writers expect
CorruptInputFiles(c) ==
    [n \in GridNames(c.D, Rev(c.CinU)) |->
        write_volume(reshape_memory_order(ChunkOf(c.D, Rev(c.CinU), n), zyx, xyz))]

NoFiles == [n \in {} |-> 0]

\* ------------------------------------------------------------------ state
VARIABLES
    cfg,                \* the configuration of the run
    garbage,            \* what np.empty memory holds in this run
    phase,              \* 1: rechunk "in" -> "out"; 2: rechunk "out" -> "back";
                        \* 3: rechunk "xin" -> "xout"
    pc,                 \* position of the coordinating thread; "invalid": the
                        \* validation raised; "error": a later statement raised
    err,                \* exception raised out of convert_chunked_volume
    files,              \* chunk files on disk, per directory
    log,                \* read_volume / write_volume calls of the current invocation
    volume_dim,
    chunk_size_in,
    chunk_size_out,     \* the local chunk_size_out (ZYX)
    vi_chunk_size_out,  \* volume_information['chunk_size_out']
    elements_to_read,
    chunk_index,
    start_element,
    end_element,
    stitch,
    chunks_needed,
    data,
    stitched_chunk,
    z, y, x,
    elements_in_first_chunk,
    pass,               \* which __launch_threads call of the output chunk
    threads,            \* workers of the current __launch_threads call
    band_base,          \* stitched_chunk when the workers were started
    upc,                \* position of a caller of the converter utilities
    file_type,          \* file type of the path given to write_volume
    file,               \* the file write_volume wrote
    roundtrip,          \* the array read_volume returned
    trip,               \* axis orders applied with reshape_memory_order
    result,             \* the array the last reshape_memory_order returned
    key_count,          \* format keys of the path given to write_chunked_volume
    chunk_files,        \* files written by write_chunked_volume
    disk                \* files of the gzip round trip, by the suffixes of the path

vars == <<cfg, garbage, phase, pc, err, files, log, volume_dim, chunk_size_in,
          chunk_size_out, vi_chunk_size_out, elements_to_read, chunk_index,
          start_element, end_element, stitch, chunks_needed, data,
          stitched_chunk, z, y, x, elements_in_first_chunk, pass, threads,
          band_base, upc, file_type, file, roundtrip, trip, result, key_count,
          chunk_files, disk>>

info_vars == <<volume_dim, chunk_size_in, chunk_size_out, vi_chunk_size_out,
               elements_to_read>>
chunk_vars == <<chunk_index, start_element, end_element, stitch, chunks_needed>>
loop_vars == <<z, y, x>>
band_vars == <<elements_in_first_chunk, pass, threads, band_base>>
run_vars == <<cfg, garbage, phase>>
util_vars == <<upc, file_type, file, roundtrip, trip, result, key_count, chunk_files,
              disk>>

\* arguments of the invocation of the current phase
InDir == IF phase = 1 THEN "in" ELSE IF phase = 2 THEN "out" ELSE "xin"
OutDir == IF phase = 1 THEN "out" ELSE IF phase = 2 THEN "back" ELSE "xout"
ArgCin == IF phase = 2 THEN cfg.CoutU ELSE cfg.CinU
ArgCout == IF phase = 2 THEN cfg.CinU ELSE cfg.CoutU

\* last_chunk: the chunk file with the highest indices
LastChunk(dir) ==
    CHOOSE n \in DOMAIN dir : \A m \in DOMAIN dir :
        m[1] <= n[1] /\ m[2] <= n[2] /\ m[3] <= n[3]

Zero3 == T3(0, 0, 0)

Init ==
    /\ cfg \in Configs
    /\ garbage \in GarbageVals
    /\ phase = 1
    /\ pc = "start"
    /\ err = "none"
    /\ files = [in |-> InputFiles(cfg), out |-> NoFiles, back |-> NoFiles,
                xin |-> CorruptInputFiles(cfg), xout |-> NoFiles]
    /\ log = <<>>
    /\ volume_dim = Zero3
    /\ chunk_size_in = Zero3
    /\ chunk_size_out = Zero3
    /\ vi_chunk_size_out = Zero3
    /\ elements_to_read = Zero3
    /\ chunk_index = Zero3
    /\ start_element = Zero3
    /\ end_element = Zero3
    /\ stitch = T3(FALSE, FALSE, FALSE)
    /\ chunks_needed = [i \in 0 .. 3 |-> FALSE]
    /\ data = [i \in 0 .. 3 |-> EmptyArray]
    /\ stitched_chunk = EmptyArray
    /\ z = 0 /\ y = 0 /\ x = 0
    /\ elements_in_first_chunk = 0
    /\ pass = 0
    /\ threads = <<>>
    /\ band_base = EmptyArray
    /\ upc = "none"
    /\ file_type = "none"
    /\ file = EmptyArray
    /\ roundtrip = EmptyArray
    /\ trip = <<>>
    /\ result = EmptyArray
    /\ key_count = 0
    /\ chunk_files = NoFiles
    /\ disk = NoFiles

\* ------------------------------------------------- convert_chunked_volume
\* line 187: __calculate_volume_dim: chunk_size_in and the indices of the file
\* name are in XYZ order, the shape of the loaded chunk in ZYX order
calculate_volume_dim(csin, name, shape) ==
    [a \in 0 .. 2 |-> csin[a] * name[a + 1] + shape[a]]

CalcVolumeDim ==
    /\ pc = "start"
    /\ LET last == LastChunk(files[InDir])
       IN /\ volume_dim' = calculate_volume_dim(ArgCin, last,
                                read_volume(files[InDir][last]).shape)
          /\ log' = Append(log, [op |-> "read", name |-> last])
    /\ pc' = "validate"
    /\ UNCHANGED <<util_vars, run_vars, err, files, chunk_size_in, chunk_size_out,
                   vi_chunk_size_out, elements_to_read, chunk_vars, data,
                   stitched_chunk, loop_vars, band_vars>>

is_volume_conversion_valid(csin, csout, vdim) ==
    /\ ~ \E a \in 0 .. 2 : csin[a] * 2 < csout[a]
    /\ ~ \E a \in 0 .. 2 : vdim[a] < csout[a]

\* the validation placed after the first chunk load
ValidateFail_AfterLoad ==
    /\ pc = "validate"
    /\ ~ is_volume_conversion_valid(Rev(ArgCin), Rev(ArgCout), Rev(volume_dim))
    /\ pc' = "invalid"
    /\ err' = "ValueError"
    /\ chunk_size_out' = Rev(ArgCout)
    /\ chunk_size_in' = Rev(ArgCin)
    /\ volume_dim' = Rev(volume_dim)
    /\ log' = Append(log, [op |-> "read", name |-> <<0, 0, 0>>])
    /\ UNCHANGED <<util_vars, run_vars, files, vi_chunk_size_out, elements_to_read,
                   chunk_vars, data, stitched_chunk, loop_vars, band_vars>>

\* lines 196-201, failing
ValidateFail ==
    /\ pc = "validate"
    /\ ~ is_volume_conversion_valid(Rev(ArgCin), Rev(ArgCout), Rev(volume_dim))
    /\ pc' = "invalid"
    /\ err' = "ValueError"
    /\ chunk_size_out' = Rev(ArgCout)
    /\ chunk_size_in' = Rev(ArgCin)
    /\ volume_dim' = Rev(volume_dim)
    /\ UNCHANGED <<util_vars, run_vars, files, log, vi_chunk_size_out, elements_to_read,
                   chunk_vars, data, stitched_chunk, loop_vars, band_vars>>

\* lines 196-227, passing: the alignment state is created
ValidateOk ==
    /\ pc = "validate"
    /\ is_volume_conversion_valid(Rev(ArgCin), Rev(ArgCout), Rev(volume_dim))
    /\ chunk_size_out' = Rev(ArgCout)
    /\ chunk_size_in' = Rev(ArgCin)
    /\ volume_dim' = Rev(volume_dim)
    /\ vi_chunk_size_out' = Rev(ArgCout)
    /\ elements_to_read' = Rev(volume_dim)
    /\ chunk_index' = T3(1, 1, 1)
    /\ start_element' = Zero3
    /\ end_element' = Zero3
    /\ stitch' = T3(FALSE, FALSE, FALSE)
    /\ chunks_needed' = [i \in 0 .. 3 |-> FALSE]
    /\ data' = [i \in 0 .. 3 |-> EmptyArray]
    /\ z' = 0
    /\ pc' = "z_loop"
    /\ UNCHANGED <<util_vars, run_vars, err, files, log, stitched_chunk, y, x, band_vars>>

\* lines 31-55: __get_indices for axis dim, on the current alignment state
get_indices(dim) ==
    LET cin == chunk_size_in[dim]
        cout == vi_chunk_size_out[dim]
        start0 == end_element[dim]
        end1 == Min(cin - end_element[dim], cout - 0) + start0
        adv == end1 = start0
        read1 == IF adv THEN cin ELSE end1 - start0
        need2 == read1 < cout
    IN IF ~ (0 < cout)
       THEN [start |-> start0, end |-> end_element[dim], idx |-> chunk_index[dim],
             stitch |-> stitch[dim], read |-> 0]
       ELSE [start |-> IF adv THEN 0 ELSE start0,
             end |-> IF need2 THEN cout - read1 ELSE end1,
             idx |-> IF adv THEN chunk_index[dim] + 1 ELSE chunk_index[dim],
             stitch |-> (need2 \/ stitch[dim]),
             read |-> read1]

\* the reset that leaves chunks_needed as it is
update_and_reset_params_KeepNeeded(dim) ==
    [chunk_index |-> IF stitch[dim] THEN [chunk_index EXCEPT ![dim] = @ + 1]
                     ELSE chunk_index,
     stitch |-> [stitch EXCEPT ![dim] = FALSE],
     vi_chunk_size_out |->
        IF chunk_size_out[dim] > elements_to_read[dim] /\ elements_to_read[dim] > 0
        THEN [vi_chunk_size_out EXCEPT ![dim] = elements_to_read[dim]]
        ELSE [vi_chunk_size_out EXCEPT ![dim] = chunk_size_out[dim]],
     chunks_needed |-> chunks_needed,
     elements_to_read |->
        IF dim = 1 THEN [elements_to_read EXCEPT ![2] = volume_dim[2]]
        ELSE IF dim = 0 THEN [elements_to_read EXCEPT ![1] = volume_dim[1]]
             ELSE elements_to_read]

\* lines 158-174: __update_and_reset_params for axis dim
update_and_reset_params(dim) ==
    [chunk_index |-> IF stitch[dim] THEN [chunk_index EXCEPT ![dim] = @ + 1]
                     ELSE chunk_index,
     stitch |-> [stitch EXCEPT ![dim] = FALSE],
     vi_chunk_size_out |->
        IF chunk_size_out[dim] > elements_to_read[dim] /\ elements_to_read[dim] > 0
        THEN [vi_chunk_size_out EXCEPT ![dim] = elements_to_read[dim]]
        ELSE [vi_chunk_size_out EXCEPT ![dim] = chunk_size_out[dim]],
     chunks_needed |->
        IF dim = 1 THEN [chunks_needed EXCEPT ![1] = FALSE, ![3] = FALSE]
        ELSE IF dim = 0
             THEN [chunks_needed EXCEPT ![1] = FALSE, ![2] = FALSE, ![3] = FALSE]
             ELSE chunks_needed,
     elements_to_read |->
        IF dim = 1 THEN [elements_to_read EXCEPT ![2] = volume_dim[2]]
        ELSE IF dim = 0 THEN [elements_to_read EXCEPT ![1] = volume_dim[1]]
             ELSE elements_to_read]

\* lines 228-234: one iteration of the z loop begins
ZStep ==
    /\ pc = "z_loop"
    /\ z < volume_dim[0]
    /\ LET g == get_indices(0)
       IN /\ chunk_index' = [chunk_index EXCEPT ![1] = 1, ![0] = g.idx]
          /\ end_element' = [end_element EXCEPT ![1] = 0, ![0] = g.end]
          /\ start_element' = [start_element EXCEPT ![0] = g.start]
          /\ stitch' = [stitch EXCEPT ![0] = g.stitch]
          /\ elements_to_read' = [elements_to_read EXCEPT ![0] = @ - g.read]
          /\ chunks_needed' = IF g.stitch THEN [chunks_needed EXCEPT ![2] = TRUE]
                              ELSE chunks_needed
    /\ y' = 0
    /\ pc' = "y_loop"
    /\ UNCHANGED <<util_vars, run_vars, err, files, log, volume_dim, chunk_size_in,
                   chunk_size_out, vi_chunk_size_out, data, stitched_chunk,
                   z, x, band_vars>>

\* line 228: the z loop is exhausted, convert_chunked_volume returns
ZDone ==
    /\ pc = "z_loop"
    /\ ~ (z < volume_dim[0])
    /\ pc' = "done"
    /\ UNCHANGED <<util_vars, run_vars, err, files, log, info_vars, chunk_vars, data,
                   stitched_chunk, loop_vars, band_vars>>

\* lines 235-241: one iteration of the y loop begins
YStep ==
    /\ pc = "y_loop"
    /\ y < volume_dim[1]
    /\ LET g == get_indices(1)
       IN /\ chunk_index' = [chunk_index EXCEPT ![2] = 1, ![1] = g.idx]
          /\ end_element' = [end_element EXCEPT ![2] = 0, ![1] = g.end]
          /\ start_element' = [start_element EXCEPT ![1] = g.start]
          /\ stitch' = [stitch EXCEPT ![1] = g.stitch]
          /\ elements_to_read' = [elements_to_read EXCEPT ![1] = @ - g.read]
          /\ chunks_needed' = IF g.stitch THEN [chunks_needed EXCEPT ![1] = TRUE]
                              ELSE chunks_needed
    /\ x' = 0
    /\ pc' = "x_loop"
    /\ UNCHANGED <<util_vars, run_vars, err, files, log, volume_dim, chunk_size_in,
                   chunk_size_out, vi_chunk_size_out, data, stitched_chunk,
                   z, y, band_vars>>

\* lines 235, 271: the y loop is exhausted, the slab is complete
SlabEnd ==
    /\ pc = "y_loop"
    /\ ~ (y < volume_dim[1])
    /\ LET u == update_and_reset_params(0)
       IN /\ chunk_index' = u.chunk_index
          /\ stitch' = u.stitch
          /\ vi_chunk_size_out' = u.vi_chunk_size_out
          /\ chunks_needed' = u.chunks_needed
          /\ elements_to_read' = u.elements_to_read
    /\ z' = z + chunk_size_out[0]
    /\ pc' = "z_loop"
    /\ UNCHANGED <<util_vars, run_vars, err, files, log, volume_dim, chunk_size_in,
                   chunk_size_out, start_element, end_element, data,
                   stitched_chunk, y, x, band_vars>>

\* lines 242-245: one iteration of the x loop begins
XStep ==
    /\ pc = "x_loop"
    /\ x < volume_dim[2]
    /\ LET g == get_indices(2)
       IN /\ chunk_index' = [chunk_index EXCEPT ![2] = g.idx]
          /\ end_element' = [end_element EXCEPT ![2] = g.end]
          /\ start_element' = [start_element EXCEPT ![2] = g.start]
          /\ stitch' = [stitch EXCEPT ![2] = g.stitch]
          /\ elements_to_read' = [elements_to_read EXCEPT ![2] = @ - g.read]
    /\ chunks_needed' = IF stitch[0] /\ stitch[1]
                        THEN [chunks_needed EXCEPT ![3] = TRUE]
                        ELSE chunks_needed
    /\ pass' = 1
    /\ pc' = "load"
    /\ UNCHANGED <<util_vars, run_vars, err, files, log, volume_dim, chunk_size_in,
                   chunk_size_out, vi_chunk_size_out, data, stitched_chunk,
                   loop_vars, elements_in_first_chunk, threads, band_base>>

\* lines 242, 270: the x loop is exhausted, the row is complete
RowEnd ==
    /\ pc = "x_loop"
    /\ ~ (x < volume_dim[2])
    /\ LET u == update_and_reset_params(1)
       IN /\ chunk_index' = u.chunk_index
          /\ stitch' = u.stitch
          /\ vi_chunk_size_out' = u.vi_chunk_size_out
          /\ chunks_needed' = u.chunks_needed
          /\ elements_to_read' = u.elements_to_read
    /\ y' = y + chunk_size_out[1]
    /\ pc' = "y_loop"
    /\ UNCHANGED <<util_vars, run_vars, err, files, log, volume_dim, chunk_size_in,
                   chunk_size_out, start_element, end_element, data,
                   stitched_chunk, z, x, band_vars>>

\* ------------------------------------------------------------ chunk fetcher
\* lines 23-28: __read_tmp_chunk_zy for chunk index ci: the file read, and the
\* broadcast of its content into a buffer of shape chunk_size_in
tmp_chunk_name(ci) == <<ci[2] - 1, ci[1] - 1, ci[0] - 1>>

fits_tmp_chunk(vol) ==
    \A a \in 0 .. 2 : Broadcastable(vol.shape[a], chunk_size_in[a])

read_tmp_chunk_zy(vol) ==
    [shape |-> chunk_size_in,
     val |-> [p \in Box(chunk_size_in) |->
        vol.val[<<BIdx(p[1], vol.shape[0], chunk_size_in[0]),
                  BIdx(p[2], vol.shape[1], chunk_size_in[1]),
                  BIdx(p[3], vol.shape[2], chunk_size_in[2])>>]]]

\* lines 66-69: __load_next_chunk keeps a copy of chunk_index, increments the
\* index of axis dim for the read and puts the copy back
load_next_chunk_NoRestore(ci, dim) ==
    [read |-> [ci EXCEPT ![dim] = @ + 1], after |-> [ci EXCEPT ![dim] = @ + 1]]

load_next_chunk(ci, dim) ==
    LET tmp_chunk_index == ci
    IN [read |-> [ci EXCEPT ![dim] = @ + 1], after |-> tmp_chunk_index]

\* the diagonal neighbour asked for with only one index incremented
load_diagonal_chunk_OneAxis(ci) ==
    LET tmp_chunk_index == ci
    IN [read |-> [ci EXCEPT ![0] = @ + 1], after |-> tmp_chunk_index]

\* lines 86-90: the same for the diagonal neighbour
load_diagonal_chunk(ci) ==
    LET tmp_chunk_index == ci
    IN [read |-> [ci EXCEPT ![0] = @ + 1, ![1] = @ + 1], after |-> tmp_chunk_index]

\* lines 76-90: the reads __load_chunks asks for with chunk index ci, in
\* order; ci: the chunk index of the read; after: chunk_index when the request
\* has returned; need: the axis whose stitch flag __load_next_chunk tests
load_requests(ci) ==
    LET n1 == IF chunks_needed[1] THEN load_next_chunk(ci, 1)
              ELSE [read |-> ci, after |-> ci]
        n2 == IF chunks_needed[2] THEN load_next_chunk(n1.after, 0)
              ELSE [read |-> n1.after, after |-> n1.after]
        n3 == IF chunks_needed[3] THEN load_diagonal_chunk(n2.after)
              ELSE [read |-> n2.after, after |-> n2.after]
    IN <<[slot |-> 0, ci |-> ci, before |-> ci, after |-> ci, need |-> 0 - 1]>>
       \o (IF chunks_needed[1]
           THEN <<[slot |-> 1, ci |-> n1.read, before |-> ci, after |-> n1.after,
                   need |-> 1]>>
           ELSE <<>>)
       \o (IF chunks_needed[2]
           THEN <<[slot |-> 2, ci |-> n2.read, before |-> n1.after,
                   after |-> n2.after, need |-> 0]>>
           ELSE <<>>)
       \o (IF chunks_needed[3]
           THEN <<[slot |-> 3, ci |-> n3.read, before |-> n2.after,
                   after |-> n3.after, need |-> 0 - 1]>>
           ELSE <<>>)

\* the exception a request raises, "none" if it succeeds
request_error(r) ==
    IF r.need >= 0 /\ ~ stitch[r.need] THEN "Exception"
    ELSE IF tmp_chunk_name(r.ci) \notin DOMAIN files[InDir] THEN "FileNotFoundError"
    ELSE IF ~ fits_tmp_chunk(read_volume(files[InDir][tmp_chunk_name(r.ci)]))
         THEN "ValueError"
         ELSE "none"

\* index of the first failing request, Len + 1 if none fails
first_failure(reqs) ==
    IF \E i \in 1 .. Len(reqs) : request_error(reqs[i]) # "none"
    THEN CHOOSE i \in 1 .. Len(reqs) :
            /\ request_error(reqs[i]) # "none"
            /\ \A j \in 1 .. i - 1 : request_error(reqs[j]) = "none"
    ELSE Len(reqs) + 1

\* __load_chunks with chunk index ci: the buffers, the log and the exception
load_chunks(ci) ==
    LET reqs == load_requests(ci)
        f == first_failure(reqs)
        \* read_volume is called for every request up to the failing one,
        \* unless that one fails in __load_next_chunk before the call
        called == {i \in 1 .. Len(reqs) :
                     i < f \/ (i = f /\ request_error(reqs[i]) # "Exception")}
        slot_req(k) == CHOOSE i \in 1 .. Len(reqs) : reqs[i].slot = k
    IN [data |-> [k \in 0 .. 3 |->
                    IF \E i \in 1 .. f - 1 : i <= Len(reqs) /\ reqs[i].slot = k
                    THEN read_tmp_chunk_zy(
                            read_volume(files[InDir][tmp_chunk_name(reqs[slot_req(k)].ci)]))
                    ELSE data[k]],
        log |-> log \o [i \in 1 .. Cardinality(called) |->
                            [op |-> "read", name |-> tmp_chunk_name(reqs[i].ci)]],
        err |-> IF f <= Len(reqs) THEN request_error(reqs[f]) ELSE "none",
        \* a request that raises in __load_next_chunk leaves chunk_index as
        \* it found it, one that raises in the read leaves it incremented
        chunk_index |->
            IF f > Len(reqs) THEN reqs[Len(reqs)].after
            ELSE IF request_error(reqs[f]) = "Exception" THEN reqs[f].before
                 ELSE reqs[f].ci]

\* lines 247-251: first pass: load, allocate the output buffer
LoadChunks ==
    /\ pc = "load"
    /\ pass = 1
    /\ LET l == load_chunks(chunk_index)
       IN /\ data' = l.data
          /\ log' = l.log
          /\ err' = l.err
          /\ IF l.err = "none"
             THEN /\ stitched_chunk' = np_empty(vi_chunk_size_out, garbage)
                  /\ elements_in_first_chunk' =
                        Min(chunk_size_in[2] - start_element[2], chunk_size_out[2])
                  /\ pc' = "launch"
             ELSE /\ pc' = "error"
                  /\ UNCHANGED <<stitched_chunk, elements_in_first_chunk>>
          /\ chunk_index' = l.chunk_index
    /\ UNCHANGED <<util_vars, run_vars, files, info_vars, start_element,
                   end_element, stitch, chunks_needed, loop_vars, pass, threads,
                   band_base>>

\* lines 256-260: second pass: advance the chunk index of the slice axis, load
LoadChunks2 ==
    /\ pc = "load"
    /\ pass = 2
    /\ LET l == load_chunks([chunk_index EXCEPT ![2] = @ + 1])
       IN /\ chunk_index' = l.chunk_index
          /\ data' = l.data
          /\ log' = l.log
          /\ err' = l.err
          /\ pc' = IF l.err = "none" THEN "launch" ELSE "error"
    /\ UNCHANGED <<util_vars, run_vars, files, info_vars, start_element, end_element,
                   stitch, chunks_needed, stitched_chunk, loop_vars, band_vars>>

\* ------------------------------------------------------ slice compositor
\* the copies of __get_slice_zy (lines 99-115), in order: tmp_chunk[d0, d1] =
\* data[k][s0, s1, current_slice_idx]
Rect(k, d0lo, d0hi, d1lo, d1hi, s0lo, s0hi, s1lo, s1hi) ==
    LET E == vi_chunk_size_out
        n == IF Is3D(data[k]) THEN data[k].shape ELSE Zero3
    IN [k |-> k,
        d0 |-> Slice(d0lo, d0hi, E[0]), d1 |-> Slice(d1lo, d1hi, E[1]),
        s0 |-> Slice(s0lo, s0hi, n[0]), s1 |-> Slice(s1lo, s1hi, n[1])]

\* an omitted slice bound: beyond every axis
None == MaxVoxels + MaxCin + MaxCout + 1

slice_rects ==
    LET E == vi_chunk_size_out
        cin == chunk_size_in
        s == start_element
        e == end_element
        f == [a \in 0 .. 2 |-> cin[a] - s[a]]   \* elements_in_first_chunk
    IN IF stitch[0] /\ stitch[1]
       THEN << Rect(0, 0, f[0], 0, f[1],       s[0], None, cin[1] - e[1], None),
               Rect(1, 0, f[0], f[1], None,    cin[0] - e[0], None, 0, E[1] - f[1]),
               Rect(2, f[0], None, 0, f[1],    0, f[1], s[1], None),
               Rect(3, f[0], None, f[1], None, 0, f[1], 0, E[1] - f[1]) >>
       ELSE IF stitch[0]
       THEN << Rect(0, 0, f[0], 0, None,       s[0], None, s[1], s[1] + E[1]),
               Rect(2, f[0], None, 0, None,    0, E[0] - f[0], s[1], s[1] + E[1]) >>
       ELSE IF stitch[1]
       THEN << Rect(0, 0, None, 0, f[1],       s[0], s[0] + E[0], s[1], None),
               Rect(1, 0, None, f[1], None,    s[0], s[0] + E[0], 0, E[1] - f[1]) >>
       ELSE << Rect(0, 0, E[0], 0, E[1],       s[0], e[0], s[1], e[1]) >>

\* a copy succeeds: data[k] is a 3D buffer, the slice index is inside its last
\* axis, and the source rectangle broadcasts to the destination rectangle
rect_ok(r, idx) ==
    /\ Is3D(data[r.k])
    /\ 0 - data[r.k].shape[2] <= idx /\ idx < data[r.k].shape[2]
    /\ Broadcastable(r.s0.len, r.d0.len)
    /\ Broadcastable(r.s1.len, r.d1.len)

get_slice_zy_ok(idx) ==
    \A i \in 1 .. Len(slice_rects) : rect_ok(slice_rects[i], idx)

InRect(r, i, j) ==
    /\ r.d0.lo <= i /\ i < r.d0.lo + r.d0.len
    /\ r.d1.lo <= j /\ j < r.d1.lo + r.d1.len

\* the slice __get_slice_zy returns at position (i, j): the last copy that
\* covers the position, else what np.empty left there
get_slice_zy(idx, i, j) ==
    LET cov == {n \in 1 .. Len(slice_rects) : InRect(slice_rects[n], i, j)}
    IN IF cov = {} THEN garbage
       ELSE LET r == slice_rects[CHOOSE n \in cov : \A m \in cov : m <= n]
                k == IF idx < 0 THEN idx + data[r.k].shape[2] ELSE idx
            IN data[r.k].val[<<r.s0.lo + BIdx(i - r.d0.lo, r.s0.len, r.d0.len),
                               r.s1.lo + BIdx(j - r.d1.lo, r.s1.len, r.d1.len),
                               k>>]

\* lines 120-127: __stitch_zy_chunks_together(start, end, slice_count_offset)
\* on buffer buf: the worker raises, or assigns its slices
stitch_ok(buf, start, end, offset) ==
    LET d == Slice(start + offset, end + offset, buf.shape[2])
    IN /\ end - start >= 0
       /\ \A t \in 0 .. end - start - 1 : get_slice_zy_ok(t + start)
       /\ Broadcastable(end - start, d.len)

stitch_zy_chunks_together(buf, start, end, offset) ==
    LET d == Slice(start + offset, end + offset, buf.shape[2])
    IN [shape |-> buf.shape,
        val |-> [p \in Box(buf.shape) |->
            IF d.lo <= p[3] /\ p[3] < d.lo + d.len
            THEN get_slice_zy(BIdx(p[3] - d.lo, end - start, d.len) + start,
                              p[1], p[2])
            ELSE buf.val[p]]]

\* a worker of thread_count 1 gets the whole band; an exception in a worker
\* ends the worker only
run_worker(buf, start, end, offset) ==
    IF stitch_ok(buf, start, end, offset)
    THEN stitch_zy_chunks_together(buf, start, end, offset)
    ELSE buf

\* the start advanced by the extra slice after the first thread as well
thread_range_NoFirstGuard(global_start, global_end, slices_per_thread, thread_count, thread_idx) ==
    LET remainder == global_end - thread_count * slices_per_thread
    IN [start |-> global_start + thread_idx * slices_per_thread
                    + Cardinality({j \in 0 .. thread_idx - 1 : j - 1 < remainder}),
        end |-> global_start + slices_per_thread + thread_idx * slices_per_thread
                    + Cardinality({j \in 0 .. thread_idx - 1 : j < remainder})]

\* lines 132-142: the slice range of worker thread_idx
thread_range(global_start, global_end, slices_per_thread, thread_count, thread_idx) ==
    LET remainder == global_end - thread_count * slices_per_thread
    IN [start |-> global_start + thread_idx * slices_per_thread
                    + Cardinality({j \in 0 .. thread_idx - 1 : j > 0 /\ j - 1 < remainder}),
        end |-> global_start + slices_per_thread + thread_idx * slices_per_thread
                    + Cardinality({j \in 0 .. thread_idx - 1 : j < remainder})]

\* the arguments of the __launch_threads call of the current pass
\* (lines 251-252 and 259-261)
band_args ==
    IF pass = 1
    THEN [offset |-> 0 - start_element[2], global_start |-> start_element[2],
          global_end |-> elements_in_first_chunk]
    ELSE [offset |-> elements_in_first_chunk, global_start |-> 0,
          global_end |-> chunk_size_out[2] - elements_in_first_chunk]

\* lines 130-147: all workers of the band are created and started
LaunchThreads ==
    /\ pc = "launch"
    /\ LET b == band_args
           spt == b.global_end \div cfg.tc
       IN threads' = [k \in 1 .. cfg.tc |->
            LET r == thread_range(b.global_start, b.global_end, spt, cfg.tc, k - 1)
            IN [start |-> r.start, end |-> r.end, offset |-> b.offset,
                status |-> "started"]]
    /\ band_base' = stitched_chunk
    /\ pc' = "join"
    /\ UNCHANGED <<util_vars, run_vars, err, files, log, info_vars, chunk_vars, data,
                   stitched_chunk, loop_vars, elements_in_first_chunk, pass>>

\* a worker thread runs __stitch_zy_chunks_together
Worker(k) ==
    /\ pc = "join"
    /\ threads[k].status = "started"
    /\ LET t == threads[k]
       IN IF stitch_ok(stitched_chunk, t.start, t.end, t.offset)
          THEN /\ stitched_chunk' =
                    stitch_zy_chunks_together(stitched_chunk, t.start, t.end, t.offset)
               /\ threads' = [threads EXCEPT ![k].status = "finished"]
          ELSE /\ threads' = [threads EXCEPT ![k].status = "raised"]
               /\ UNCHANGED stitched_chunk
    /\ UNCHANGED <<util_vars, run_vars, pc, err, files, log, info_vars, chunk_vars, data,
                   loop_vars, elements_in_first_chunk, pass, band_base>>

WorkerStep == \E k \in 1 .. Len(threads) : Worker(k)

\* the coordinator goes on without waiting for the workers
JoinThreads_NoBarrier ==
    /\ pc = "join"
    /\ IF pass = 1 /\ elements_in_first_chunk < vi_chunk_size_out[2]
       THEN pass' = 2 /\ pc' = "load"
       ELSE pass' = pass /\ pc' = "write"
    /\ UNCHANGED <<util_vars, run_vars, err, files, log, info_vars, chunk_vars, data,
                   stitched_chunk, loop_vars, elements_in_first_chunk, threads,
                   band_base>>

\* lines 149-150 and 254: every worker is joined
JoinThreads ==
    /\ pc = "join"
    /\ \A k \in 1 .. Len(threads) : threads[k].status # "started"
    /\ IF pass = 1 /\ elements_in_first_chunk < vi_chunk_size_out[2]
       THEN pass' = 2 /\ pc' = "load"
       ELSE pass' = pass /\ pc' = "write"
    /\ UNCHANGED <<util_vars, run_vars, err, files, log, info_vars, chunk_vars, data,
                   stitched_chunk, loop_vars, elements_in_first_chunk, threads,
                   band_base>>

\* lines 263-269: the output chunk is written, the extent of the next one set
out_name == <<x \div chunk_size_out[2], y \div chunk_size_out[1], z \div chunk_size_out[0]>>

WriteChunk ==
    /\ pc = "write"
    /\ files' = [files EXCEPT ![OutDir] =
                    (out_name :> write_volume(np_swapaxes02(stitched_chunk))) @@ @]
    /\ log' = Append(log, [op |-> "write", name |-> out_name])
    /\ vi_chunk_size_out' =
        IF elements_to_read[2] < chunk_size_out[2] /\ elements_to_read[2] > 0
        THEN [vi_chunk_size_out EXCEPT ![2] = elements_to_read[2]]
        ELSE [vi_chunk_size_out EXCEPT ![2] = chunk_size_out[2]]
    /\ x' = x + chunk_size_out[2]
    /\ pc' = "x_loop"
    /\ UNCHANGED <<util_vars, run_vars, err, volume_dim, chunk_size_in, chunk_size_out,
                   elements_to_read, chunk_vars, data, stitched_chunk, z, y,
                   band_vars>>

\* the chunks written to "out" are rechunked back to the input chunk size
StartBack ==
    /\ pc = "done"
    /\ phase = 1
    /\ phase' = 2
    /\ pc' = "start"
    /\ log' = <<>>
    /\ UNCHANGED <<util_vars, cfg, garbage, err, files, info_vars, chunk_vars, data,
                   stitched_chunk, loop_vars, band_vars>>

\* the engine is run again on the chunks written from the 'xyz' buffers, with
\* one worker thread
StartCorrupt ==
    /\ pc \in {"done", "invalid", "error"}
    /\ phase = 1
    /\ cfg.tc = 1
    /\ phase' = 3
    /\ pc' = "start"
    /\ err' = "none"
    /\ log' = <<>>
    /\ UNCHANGED <<util_vars, cfg, garbage, files, info_vars, chunk_vars, data,
                   stitched_chunk, loop_vars, band_vars>>

Next ==
    \/ CalcVolumeDim \/ ValidateFail \/ ValidateOk
    \/ ZStep \/ ZDone \/ YStep \/ SlabEnd \/ XStep \/ RowEnd
    \/ LoadChunks \/ LoadChunks2 \/ LaunchThreads
    \/ WorkerStep
    \/ JoinThreads \/ WriteChunk \/ StartBack \/ StartCorrupt

\* --------------------------------------------- callers of the utilities
\* the whole logical volume as one array
Volume == ChunkOf(cfg.D, cfg.D, <<0, 0, 0>>)

\* lines 274-289 of converter_chunked.py: write_chunked_volume with a path
\* format of keys format keys; str.format fills the keys from the indices
\* x, y, z in this order and ignores the indices beyond the keys; the loops
\* run z, y, x, a later write replaces the file of the same name
chunk_file_name(keys, n) == SubSeq(n, 1, keys)
write_chunked_volume(volume, keys, chunk_size) ==
    IF keys # 1
    THEN [err |-> "Exception", files |-> NoFiles]
    ELSE LET cells == GridNames(volume.shape, chunk_size)
             names == {chunk_file_name(keys, n) : n \in cells}
             last(nm) == CHOOSE n \in cells :
                            /\ chunk_file_name(keys, n) = nm
                            /\ \A m \in cells : chunk_file_name(keys, m) = nm =>
                                    \/ m[3] < n[3]
                                    \/ m[3] = n[3] /\ m[2] <= n[2]
         IN [err |-> "none",
             files |-> [nm \in names |->
                          write_volume(ChunkOf(volume.shape, chunk_size, last(nm)))]]

UtilConfigs == {c \in Configs : c.CoutU = c.CinU /\ c.tc = 1}
KeyCounts == 0 .. 3

InitUtil ==
    /\ cfg \in UtilConfigs
    /\ garbage = <<0, 0, 0>>
    /\ phase = 0
    /\ pc = "none"
    /\ err = "none"
    /\ files = [in |-> NoFiles, out |-> NoFiles, back |-> NoFiles,
                xin |-> NoFiles, xout |-> NoFiles]
    /\ log = <<>>
    /\ volume_dim = Zero3
    /\ chunk_size_in = Zero3
    /\ chunk_size_out = Zero3
    /\ vi_chunk_size_out = Zero3
    /\ elements_to_read = Zero3
    /\ chunk_index = Zero3
    /\ start_element = Zero3
    /\ end_element = Zero3
    /\ stitch = T3(FALSE, FALSE, FALSE)
    /\ chunks_needed = [i \in 0 .. 3 |-> FALSE]
    /\ data = [i \in 0 .. 3 |-> EmptyArray]
    /\ stitched_chunk = EmptyArray
    /\ z = 0 /\ y = 0 /\ x = 0
    /\ elements_in_first_chunk = 0
    /\ pass = 0
    /\ threads = <<>>
    /\ band_base = EmptyArray
    /\ upc = "idle"
    /\ file_type = "none"
    /\ file = EmptyArray
    /\ roundtrip = EmptyArray
    /\ trip = <<>>
    /\ result = Volume
    /\ key_count = 0
    /\ chunk_files = NoFiles
    /\ disk = NoFiles

engine_vars == <<run_vars, pc, files, log, info_vars, chunk_vars, data,
                 stitched_chunk, loop_vars, band_vars>>

\* test_convert, line 36: the volume is written to a file of type ft
WriteVolume ==
    /\ upc = "idle"
    /\ \E ft \in FileTypes :
        /\ file_type' = ft
        /\ file' = write_volume_ft(Volume, ft)
    /\ upc' = "written"
    /\ UNCHANGED <<engine_vars, err, roundtrip, trip, result, key_count, chunk_files,
                   disk>>

\* test_convert, line 37: the file is read back
ReadVolume ==
    /\ upc = "written"
    /\ roundtrip' = read_volume_ft(file, file_type)
    /\ upc' = "read"
    /\ UNCHANGED <<engine_vars, err, file_type, file, trip, result, key_count,
                   chunk_files, disk>>

last_order == IF trip = <<>> THEN zyx ELSE trip[Len(trip)]

\* test_reshape_axis, lines 118-120: the next axis order of a trip
ReshapeStep ==
    /\ upc \in {"idle", "trip"}
    /\ Len(trip) < MaxTrip
    /\ \E axes \in AxisOrders :
        /\ result' = reshape_memory_order(result, last_order, axes)
        /\ trip' = Append(trip, axes)
    /\ upc' = "trip"
    /\ UNCHANGED <<engine_vars, err, file_type, file, roundtrip, key_count,
                   chunk_files, disk>>

\* test_reshape_axis, lines 109 and 121: back to 'zyx'
ReshapeBack ==
    /\ upc \in {"idle", "trip"}
    /\ result' = reshape_memory_order(result, last_order, zyx)
    /\ upc' = "back"
    /\ UNCHANGED <<engine_vars, err, file_type, file, roundtrip, trip, key_count,
                   chunk_files, disk>>

\* the volume is cut into chunk files of the input chunk size
WriteChunkedVolume ==
    /\ upc = "idle"
    /\ \E keys \in KeyCounts :
        /\ key_count' = keys
        /\ LET w == write_chunked_volume(Volume, keys, Rev(cfg.CinU))
           IN /\ err' = w.err
              /\ chunk_files' = w.files
    /\ upc' = "chunked"
    /\ UNCHANGED <<engine_vars, file_type, file, roundtrip, trip, result, disk>>

\* write_volume(volume, "test_volume.<ft>", apply_gzip = True) on an empty
\* directory
WriteVolumeGzip ==
    /\ upc = "idle"
    /\ \E ft \in FileTypes :
        /\ file_type' = ft
        /\ LET w == write_volume_gzip(NoFiles, Volume, Suffixes(ft), TRUE)
           IN /\ err' = w.err
              /\ disk' = w.disk
    /\ upc' = "gz_written"
    /\ UNCHANGED <<engine_vars, file, roundtrip, trip, result, key_count, chunk_files>>

\* read_volume("test_volume.<ft>.gz")
ReadVolumeGzip ==
    /\ upc = "gz_written"
    /\ err = "none"
    /\ LET r == read_volume_gzip(disk, Suffixes(file_type) \o <<"gz">>)
       IN /\ err' = r.err
          /\ roundtrip' = r.volume
          /\ disk' = r.disk
    /\ upc' = "gz_read"
    /\ UNCHANGED <<engine_vars, file_type, file, trip, result, key_count, chunk_files>>

NextUtil ==
    \/ WriteVolume \/ ReadVolume \/ ReshapeStep \/ ReshapeBack
    \/ WriteChunkedVolume
    \/ WriteVolumeGzip \/ ReadVolumeGzip

\* ---------------------------------------------------------------- claims
\* the logical volume cut by the output grid
OutGrid == GridNames(cfg.D, Rev(cfg.CoutU))
ExpectedChunk(n) == ChunkOf(cfg.D, Rev(cfg.CoutU), n)

\* the configuration satisfies Cout <= 2*Cin and volume_dim >= Cout on every
\* axis of the logical volume
TrulyValid ==
    \A a \in 0 .. 2 : /\ Rev(cfg.CoutU)[a] <= 2 * Rev(cfg.CinU)[a]
                      /\ cfg.D[a] >= Rev(cfg.CoutU)[a]

WriteNames == [i \in 1 .. Len(SelectSeq(log, LAMBDA e : e.op = "write")) |->
                  SelectSeq(log, LAMBDA e : e.op = "write")[i].name]

\* C1: after the conversion completes, every written output chunk (ix,iy,iz)
\* holds at every ZYX position the voxel of the logical volume at the global
\* position of that cell of the output grid.
C1_OutputVoxels ==
    (phase = 1 /\ pc = "done") =>
        \A n \in DOMAIN files.out :
            n \in OutGrid /\ read_volume(files.out[n]) = ExpectedChunk(n)

\* C2: rechunking from A to B and back from B to A yields chunk files equal
\* to the original chunk files at every voxel.
C2_RoundTrip ==
    (phase = 2 /\ pc = "done") =>
        \A n \in DOMAIN files.in :
            /\ n \in DOMAIN files.back
            /\ read_volume(files.back[n]) = read_volume(files.in[n])

\* C3: with chunk_size_out = chunk_size_in every input chunk is copied to an
\* output chunk of the same index, shape and voxel values.
C3_Idempotence ==
    (phase = 1 /\ pc = "done" /\ cfg.CoutU = cfg.CinU) =>
        \A n \in DOMAIN files.in :
            /\ n \in DOMAIN files.out
            /\ read_volume(files.out[n]) = read_volume(files.in[n])

\* C4: the output buffer is the same for every thread_count and every
\* interleaving: once all workers of a band are joined the buffer is what the
\* single worker of thread_count = 1 makes of the band.
AllJoined == pc = "join" /\ \A k \in 1 .. Len(threads) : threads[k].status # "started"
C4_ThreadCountInvariance ==
    AllJoined =>
        stitched_chunk = run_worker(band_base, band_args.global_start,
                            band_args.global_start + band_args.global_end,
                            band_args.offset)

\* C5: the buffer allocated and written for output chunk i has extent
\* min(Cout, volume_dim - i*Cout) on every axis.
C5_ClippedExtents ==
    /\ (phase = 1 /\ pc = "write" /\ out_name \in OutGrid) =>
            stitched_chunk.shape = ExpectedChunk(out_name).shape
    /\ phase = 1 =>
        \A n \in DOMAIN files.out :
            n \in OutGrid /\ read_volume(files.out[n]).shape = ExpectedChunk(n).shape

\* C6: the conversion fails with a configuration error (ValueError) exactly
\* if on some axis Cout > 2*Cin or volume_dim < Cout.
C6_ValidationIff ==
    (phase = 1 /\ pc \notin {"start", "validate"}) =>
        /\ (pc = "invalid") <=> ~ TrulyValid
        /\ pc \in {"done", "error"} => ((err = "ValueError") <=> ~ TrulyValid)

C8_WorkerFailureAborts ==
    [][(\E k \in 1 .. Len(threads) : threads[k].status = "raised") =>
            files' = files]_vars

\* C9: for a valid configuration the write_volume calls name exactly the
\* cells of the output grid, each once, Z outermost, Y middle, X innermost.
ExpectedWrites ==
    LET nx == CeilDiv(cfg.D[2], Rev(cfg.CoutU)[2])
        ny == CeilDiv(cfg.D[1], Rev(cfg.CoutU)[1])
        nz == CeilDiv(cfg.D[0], Rev(cfg.CoutU)[0])
    IN [i \in 1 .. nx * ny * nz |->
            <<(i - 1) % nx, ((i - 1) \div nx) % ny, (i - 1) \div (nx * ny)>>]
C9_WriteOrder ==
    (phase = 1 /\ TrulyValid /\ pc \in {"done", "error"}) =>
        WriteNames = ExpectedWrites

\* C10: the buffer passed to write_volume for an output chunk has the ZYX
\* shape (ez, ey, ex) of the chunk's effective extents and is written under
\* the name of the chunk's X, Y, Z indices.
C10_ZYXBuffer ==
    [][pc = "write" =>
        /\ out_name \in DOMAIN files'[OutDir]
        /\ read_volume(files'[OutDir][out_name]).shape = vi_chunk_size_out]_vars

\* the three axis extents of the volume differ
ExtentsDiffer ==
    /\ cfg.D[0] # cfg.D[1] /\ cfg.D[1] # cfg.D[2] /\ cfg.D[0] # cfg.D[2]

\* C11: for each file type, read_volume of the file written by write_volume
\* returns an array equal to the volume in shape and in every value.
C11_WriteReadRoundTrip == (upc = "read") => roundtrip = Volume

C11_Witness ==
    /\ upc = "read"
    /\ file_type = "hdf5"
    /\ ExtentsDiffer
    /\ file.shape = Rev(Volume.shape)
    /\ file # Volume
    /\ roundtrip = Volume

\* C12: a trip of axis orders applied one after another with
\* reshape_memory_order, starting from 'zyx' and converted back to 'zyx' at
\* the end, returns the original volume in shape and in every value; from
\* 'zyx' to 'zyx' the volume is returned unchanged.
C12_ReshapeRoundTrip == (upc = "back") => result = Volume

C12_Witness ==
    /\ upc = "back"
    /\ Len(trip) >= 2
    /\ trip[1] # zyx /\ trip[2] # zyx /\ trip[2] # trip[1]
    /\ ExtentsDiffer
    /\ result = Volume

\* C13: given a path format of exactly three format keys,
\* write_chunked_volume writes one file per cell of the chunk grid, named by
\* the cell's x, y, z chunk indices, holding the sub-block of the cell clipped
\* at the volume boundary.
C13_ChunkedFiles ==
    (upc = "chunked" /\ key_count = 3) =>
        /\ err = "none"
        /\ DOMAIN chunk_files = GridNames(cfg.D, Rev(cfg.CinU))
        /\ \A n \in DOMAIN chunk_files :
                read_volume(chunk_files[n]) = ChunkOf(cfg.D, Rev(cfg.CinU), n)

\* C14: for a valid configuration and a volume that is not symmetric under
\* exchanging its X and Z axes, whose input chunks written from an
\* XYZ-ordered buffer differ from the chunks written from the ZYX buffer, the
\* output chunks the engine makes of the XYZ-written chunks differ from the
\* output chunks it makes of the ZYX-written chunks.
NotSymmetric == np_swapaxes02(Volume) # Volume
C14_AxisOrderRegression ==
    (/\ phase = 3 /\ pc \in {"done", "invalid", "error"}
     /\ TrulyValid /\ NotSymmetric /\ files.xin # files.in) =>
        files.xout # files.out

\* C15: for every configuration that passes the validation, every output
\* chunk of the output grid overlaps at most 2 input chunks along each axis.
Overlap(a, i) ==
    LET cin == Rev(cfg.CinU)[a]
        cout == Rev(cfg.CoutU)[a]
    IN {j \in 0 .. CeilDiv(cfg.D[a], cin) - 1 :
            /\ j * cin < Min((i + 1) * cout, cfg.D[a])
            /\ (j + 1) * cin > i * cout}
C15_AtMostTwoInputChunks ==
    (phase = 1 /\ pc \notin {"start", "validate", "invalid"} /\ TrulyValid) =>
        \A a \in 0 .. 2 :
            \A i \in 0 .. CeilDiv(cfg.D[a], Rev(cfg.CoutU)[a]) - 1 :
                Cardinality(Overlap(a, i)) <= 2

\* C16: the volume extent computed from the last input chunk is, on each
\* axis a (X, Y, Z), Cin[a] * last_chunk_index[a] + the extent of the last
\* chunk on the same axis a.
C16_VolumeDim ==
    (phase = 1 /\ pc = "validate") =>
        LET last == LastChunk(files[InDir])
            shape == read_volume(files[InDir][last]).shape
        IN \A a \in 0 .. 2 :
            volume_dim[a] = ArgCin[a] * last[a + 1] + shape[2 - a]

\* C17: while a worker of the band is still running, no read_volume or
\* write_volume call happens, no chunk file changes, the alignment state does
\* not change and the coordinator stays at the join.
Running == pc = "join" /\ \E k \in 1 .. Len(threads) : threads[k].status = "started"
C17_ForkJoinBarrier ==
    [][Running =>
        /\ pc' = "join"
        /\ log' = log
        /\ files' = files
        /\ data' = data
        /\ chunk_vars' = chunk_vars
        /\ info_vars' = info_vars]_vars

C17_Witness ==
    /\ Running
    /\ \E k \in 1 .. Len(threads) : threads[k].status = "finished"
    /\ stitched_chunk # band_base

\* C18: the slice ranges handed to the workers of a band of n >= 0 slices
\* are pairwise disjoint and their union is exactly the band, also when n is
\* smaller than thread_count; a worker writes only slices of its own range
\* into the output buffer, and when the workers have finished every slice of
\* the band holds what its worker wrote and no other slice has changed.
IsPartition(ranges, global_start, n) ==
    /\ \A k \in DOMAIN ranges :
            /\ global_start <= ranges[k].start
            /\ ranges[k].start <= ranges[k].end
            /\ ranges[k].end <= global_start + n
    /\ \A sl \in global_start .. global_start + n - 1 :
            Cardinality({k \in DOMAIN ranges :
                            ranges[k].start <= sl /\ sl < ranges[k].end}) = 1
\* every band of 0 .. MaxCout slices, every thread_count
LaunchRangesPartition ==
    \A n \in 0 .. MaxCout : \A tc \in 1 .. MaxThreads : \A gs \in 0 .. MaxCin :
        IsPartition([k \in 1 .. tc |-> thread_range(gs, n, n \div tc, tc, k - 1)], gs, n)
WritesOwnRange(k) ==
    /\ stitched_chunk'.shape = stitched_chunk.shape
    /\ \A p \in Box(stitched_chunk.shape) :
            stitched_chunk'.val[p] # stitched_chunk.val[p] =>
                /\ threads[k].start <= p[3] - threads[k].offset
                /\ p[3] - threads[k].offset < threads[k].end
BandWritten ==
    LET b == band_args
    IN /\ stitched_chunk.shape = band_base.shape
       /\ \A p \in Box(stitched_chunk.shape) :
            stitched_chunk.val[p] =
                IF /\ b.global_start <= p[3] - b.offset
                   /\ p[3] - b.offset < b.global_start + b.global_end
                THEN get_slice_zy(p[3] - b.offset, p[1], p[2])
                ELSE band_base.val[p]
C19_FirstThreadsGetExtra ==
    (pc = "join" /\ band_args.global_end >= 0) =>
        LET n == band_args.global_end
            tc == Len(threads)
        IN /\ threads[1].start = band_args.global_start
           /\ \A k \in 1 .. tc - 1 : threads[k + 1].start = threads[k].end
           /\ \A k \in 1 .. tc :
                threads[k].end - threads[k].start =
                    (n \div tc) + (IF k - 1 < n % tc THEN 1 ELSE 0)

\* C20: after every __get_indices step on an axis the sub-range taken from
\* the current input chunk is [start, start + min(Cin - start, needed)) with
\* 0 <= start < Cin, where start is the previous end, or 0 with the
\* input-chunk index advanced by one when the previous end equals Cin, and
\* needed is the effective extent of the output chunk on the axis.
IndicesStep(dim) ==
    \/ dim = 0 /\ pc = "z_loop" /\ pc' = "y_loop"
    \/ dim = 1 /\ pc = "y_loop" /\ pc' = "x_loop"
    \/ dim = 2 /\ pc = "x_loop" /\ pc' = "load"
C20_SubRange ==
    [][\A dim \in 0 .. 2 : IndicesStep(dim) =>
        LET cin == chunk_size_in[dim]
            needed == vi_chunk_size_out[dim]
            prev == end_element[dim]
            start == start_element'[dim]
            taken == Min(cin - start, needed)
        IN /\ 0 <= start /\ start < cin
           /\ IF prev = cin
              THEN start = 0 /\ chunk_index'[dim] = chunk_index[dim] + 1
              ELSE start = prev /\ chunk_index'[dim] = chunk_index[dim]
           /\ IF taken < needed
              THEN end_element'[dim] = needed - taken
              ELSE end_element'[dim] = start + taken]_vars

\* C21: whenever an output chunk is assembled (the first load of the chunk is
\* about to run), the stitch flag of every axis is true exactly when the
\* elements left in the current input chunk from start_element are fewer than
\* the elements the output chunk needs on that axis, so a flag raised for an
\* earlier output chunk is not carried into a chunk that needs no second chunk.
Assembling == pc = "load" /\ pass = 1

C21_StitchFlagExact ==
    Assembling =>
        \A dim \in 0 .. 2 :
            stitch[dim] <=>
                (chunk_size_in[dim] - start_element[dim] < vi_chunk_size_out[dim])

\* C22: every __get_indices step lowers elements_to_read of its axis by the
\* extent of the output chunk produced on that axis; the counter is positive
\* before the step and never negative after it.
C22_CounterStep ==
    [][\A dim \in 0 .. 2 : IndicesStep(dim) =>
        /\ elements_to_read[dim] > 0
        /\ elements_to_read'[dim] = elements_to_read[dim] - vi_chunk_size_out[dim]
        /\ elements_to_read'[dim] >= 0]_vars

\* C23: at the start of every sweep of an inner axis (a new row for axis 2, a
\* new slab for axis 1) the alignment state of that axis is the one of the
\* start of the invocation: first input chunk, consumed offset 0, counter
\* equal to the volume extent, effective output extent equal to the
\* configured one.
SweepStart(dim) ==
    \/ dim = 2 /\ pc = "x_loop" /\ x = 0
    \/ dim = 1 /\ pc = "y_loop" /\ y = 0

C23_SweepStartState ==
    \A dim \in 1 .. 2 : SweepStart(dim) =>
        /\ chunk_index[dim] = 1
        /\ end_element[dim] = 0
        /\ elements_to_read[dim] = volume_dim[dim]
        /\ vi_chunk_size_out[dim] = chunk_size_out[dim]

\* C24: when an output chunk needs two passes along the slice axis, the first
\* pass writes the slices [0, n1) and the second pass the slices [n1, e) of the
\* same buffer, e being the extent of the buffer on the slice axis: the two
\* bands are non-empty, disjoint, inside the buffer and cover it.
C24_TwoPassBands ==
    (pc = "join" /\ pass = 2) =>
        LET e == stitched_chunk.shape[2]
            n1 == elements_in_first_chunk
            b == band_args
        IN /\ 0 < n1 /\ n1 < e
           /\ band_base.shape = stitched_chunk.shape
           /\ b.global_start + b.offset = n1
           /\ b.global_start + b.offset + b.global_end = e

\* C25: whenever the loaded chunks are handed to __get_slice_zy, the
\* destination rectangles of its copies partition the output slice and every
\* source rectangle, as numpy cuts it from the input chunk buffer, has the
\* shape of its destination: no copy is out of bounds or shape-mismatched.
RectsPartitionSlice ==
    \A i \in 0 .. vi_chunk_size_out[0] - 1 : \A j \in 0 .. vi_chunk_size_out[1] - 1 :
        Cardinality({n \in 1 .. Len(slice_rects) : InRect(slice_rects[n], i, j)}) = 1

RectsSameShape ==
    \A n \in 1 .. Len(slice_rects) :
        /\ slice_rects[n].s0.len = slice_rects[n].d0.len
        /\ slice_rects[n].s1.len = slice_rects[n].d1.len

C25_SliceRectangles ==
    pc = "launch" => RectsPartitionSlice /\ RectsSameShape

\* C26: in each assembly pass __load_chunks reads the current chunk, then the
\* next chunk along axis 1 iff stitch[1] is set, the next chunk along axis 0
\* iff stitch[0] is set, and the diagonal neighbour iff both are set; no other
\* chunk file is read in the pass (a pass that fails stops inside this list).
LoadStep == pc = "load" /\ pc' # "load"

ExpectedReads ==
    LET ci == IF pass = 2 THEN [chunk_index EXCEPT ![2] = @ + 1] ELSE chunk_index
    IN <<tmp_chunk_name(ci)>>
       \o (IF stitch[1] THEN <<tmp_chunk_name([ci EXCEPT ![1] = @ + 1])>> ELSE <<>>)
       \o (IF stitch[0] THEN <<tmp_chunk_name([ci EXCEPT ![0] = @ + 1])>> ELSE <<>>)
       \o (IF stitch[0] /\ stitch[1]
           THEN <<tmp_chunk_name([ci EXCEPT ![0] = @ + 1, ![1] = @ + 1])>>
           ELSE <<>>)

C26_ReadsOfAPass ==
    [][LoadStep =>
        LET n == Len(log') - Len(log)
        IN /\ n >= 0 /\ n <= Len(ExpectedReads)
           /\ SubSeq(log', 1, Len(log)) = log
           /\ \A i \in 1 .. n :
                log'[Len(log) + i] = [op |-> "read", name |-> ExpectedReads[i]]
           /\ pc' = "launch" => n = Len(ExpectedReads)]_vars

C26_Witness ==
    /\ pc = "launch" /\ stitch[0] /\ stitch[1]
    /\ Len(log) >= 4
    /\ \A i \in 1 .. 4 : log[Len(log) - 4 + i].name = ExpectedReads[i]

\* C27: for a valid configuration every input chunk file requested during
\* the sweep has zero-based indices inside the input grid on every axis.
C27_RequestsInsideGrid ==
    (phase = 1 /\ TrulyValid) =>
        \A i \in 1 .. Len(log) :
            log[i].op = "read" => log[i].name \in GridNames(cfg.D, Rev(cfg.CinU))

\* C29: whenever __load_chunks is about to run, chunks_needed[1] implies
\* stitch[1], chunks_needed[2] implies stitch[0] and chunks_needed[3] implies
\* both, and the exception of __load_next_chunk is never raised.
C29_NeededImpliesStitch ==
    /\ pc = "load" =>
            /\ chunks_needed[1] => stitch[1]
            /\ chunks_needed[2] => stitch[0]
            /\ chunks_needed[3] => stitch[0] /\ stitch[1]
    /\ err # "Exception"

C29_Witness ==
    /\ pc = "launch" /\ err = "none"
    /\ chunks_needed[1] /\ ~ chunks_needed[2]
    /\ Is3D(data[1])

\* C30: a successful __load_chunks call leaves chunk_index, start_element,
\* end_element, stitch and chunks_needed with the values they had when it was
\* called (in the second pass: after the increment of line 256).
C30_LoadLeavesAlignment ==
    [][(LoadStep /\ pc' = "launch") =>
        /\ chunk_index' = IF pass = 2 THEN [chunk_index EXCEPT ![2] = @ + 1]
                          ELSE chunk_index
        /\ UNCHANGED <<start_element, end_element, stitch, chunks_needed>>]_vars

C30_Witness ==
    /\ pc = "launch" /\ pass = 2 /\ err = "none"
    /\ chunks_needed[1]
    /\ Is3D(data[1])

\* C28: a volume written with write_volume(volume, path, apply_gzip = True)
\* leaves only path + '.gz' on disk, and read_volume of that path returns the
\* written volume and leaves no temporary decompressed file behind.
GzPath == Suffixes(file_type) \o <<"gz">>

C28_GzipRoundTrip ==
    /\ upc = "gz_written" => err = "none" /\ DOMAIN disk = {GzPath}
    /\ upc = "gz_read" =>
            /\ err = "none"
            /\ roundtrip = Volume
            /\ DOMAIN disk = {GzPath}

Spec == Init /\ [][Next]_vars
SpecUtil == InitUtil /\ [][NextUtil]_vars
====
